---- MODULE Spec2Model ----
(***************************************************************************)
(* Contact-form validation of src/script.js (the second DOMContentLoaded   *)
(* handler, lines 52-238): the field descriptors, the three validators,    *)
(* validateField, validateForm and the blur / input / submit listeners.    *)
(*                                                                         *)
(* A string is a sequence of one-character strings, so that trim() and the *)
(* email regular expression are computed character by character.  The      *)
(* texts written into the error slots are TLA+ strings built exactly as    *)
(* the template literals of the source build them.                         *)
(***************************************************************************)
EXTENDS Naturals, Sequences, FiniteSets, TLC

VARIABLES
    absent,         \* the elements the page's markup does not contain
    pc,             \* "loading" before DOMContentLoaded has run, then "ready"
    initFault,      \* TRUE iff the DOMContentLoaded handler ended in a thrown TypeError
    listening,      \* listening[i]: the blur and input listeners of field i are registered
    submitBound,    \* the submit listener of the form is registered
    value,          \* value[i]: input.value of field i
    errText,        \* errText[i]: errorElement.textContent of field i
    errored,        \* errored[i]: the form-group of field i carries the class "error"
    hidden,         \* the success message carries the class "hidden"
    focused,        \* the field that holds input focus, 0 for none of the four
    successEvents,  \* number of "contact-success" events dispatched on document
    failureEvents,  \* number of "contact-failure" events dispatched on document
    lastSubmit      \* what validateForm() returned in the latest submit: "none", "pass", "fail"

vars == <<absent, pc, initFault, listening, submitBound, value, errText, errored,
          hidden, focused, successEvents, failureEvents, lastSubmit>>

-----------------------------------------------------------------------------
(* Bounds *)

\* Submit events taken in one behaviour (caps the two event counters).
MaxSignals == 2
\* Elements that may be absent from the page in SpecPartial.
MaxAbsent == 1
\* Longest string typed into the email field in SpecField.
MaxEmailLen == 6
\* Longest string typed into a text field (name, subject, message) in SpecField.
MaxTextLen == 11

-----------------------------------------------------------------------------
(* Field descriptors, script.js 60-89.  A property the literal does not    *)
(* give (type of the text fields, minLength of the email field) is         *)
(* undefined in the source: "" and 0 stand for it, both falsy as it is.    *)

fields ==
    << [testId |-> "test-contact-name", required |-> TRUE, type |-> "", minLength |-> 1,
        errorTestId |-> "test-contact-error-name", friendlyName |-> "Full Name"],
       [testId |-> "test-contact-email", required |-> TRUE, type |-> "email", minLength |-> 0,
        errorTestId |-> "test-contact-error-email", friendlyName |-> "Email"],
       [testId |-> "test-contact-subject", required |-> TRUE, type |-> "", minLength |-> 1,
        errorTestId |-> "test-contact-error-subject", friendlyName |-> "Subject"],
       [testId |-> "test-contact-message", required |-> TRUE, type |-> "", minLength |-> 10,
        errorTestId |-> "test-contact-error-message", friendlyName |-> "Message"] >>

FieldIdx == 1..Len(fields)

\* Declared positions of the four fields.
NameIdx == CHOOSE i \in FieldIdx : fields[i].testId = "test-contact-name"
EmailIdx == CHOOSE i \in FieldIdx : fields[i].testId = "test-contact-email"
SubjectIdx == CHOOSE i \in FieldIdx : fields[i].testId = "test-contact-subject"
MessageIdx == CHOOSE i \in FieldIdx : fields[i].testId = "test-contact-message"

-----------------------------------------------------------------------------
(* Strings *)

\* What String.prototype.trim strips and what \s matches (the two classes agree).
WhiteSpace == {" ", "\t"}

SetMin(S) == CHOOSE x \in S : \A y \in S : x <= y
SetMax(S) == CHOOSE x \in S : \A y \in S : x >= y

\* value.trim()
Trim(s) ==
    LET keep == {k \in 1..Len(s) : s[k] \notin WhiteSpace}
    IN  IF keep = {} THEN << >> ELSE SubSeq(s, SetMin(keep), SetMax(keep))

\* One or more characters of the class [^\s@], the whole of s[from..to].
NonSpaceNonAt(s, from, to) ==
    /\ from <= to
    /\ \A k \in from..to : s[k] \notin WhiteSpace /\ s[k] # "@"

\* Variant of emailRegexTest: the pattern without its "\.[^\s@]+" part.
emailRegexTest_NoTld(s) ==
    \E a \in 1..Len(s) :
        /\ s[a] = "@"
        /\ NonSpaceNonAt(s, 1, a - 1)
        /\ NonSpaceNonAt(s, a + 1, Len(s))

\* emailRegex.test(s) for /^[^\s@]+@[^\s@]+\.[^\s@]+$/ : some "@" at a and some
\* "." at d split s into three non-empty runs of [^\s@].
emailRegexTest(s) ==
    \E a \in 1..Len(s) : \E d \in 1..Len(s) :
        /\ a < d
        /\ s[a] = "@"
        /\ s[d] = "."
        /\ NonSpaceNonAt(s, 1, a - 1)
        /\ NonSpaceNonAt(s, a + 1, d - 1)
        /\ NonSpaceNonAt(s, d + 1, Len(s))

-----------------------------------------------------------------------------
(* validators, script.js 111-129 *)

validators_required(v, name) ==
    IF Len(Trim(v)) > 0 THEN "" ELSE name \o " is required."

\* Variant of validators.minLength: ">" where the source has ">=".
validators_minLength_Strict(v, min, name) ==
    IF Len(Trim(v)) > min
    THEN ""
    ELSE name \o " must be at least " \o ToString(min) \o " characters long."

validators_minLength(v, min, name) ==
    IF Len(Trim(v)) >= min
    THEN ""
    ELSE name \o " must be at least " \o ToString(min) \o " characters long."

validators_email(v) ==
    IF emailRegexTest(Trim(v))
    THEN ""
    ELSE "Please enter a valid email address (e.g., name@example.com)."

-----------------------------------------------------------------------------
(* The page: the elements the selectors of script.js 54-57 and 92-107 find *)

Elements ==
    ({"input", "error", "group"} \X FieldIdx) \cup {<<"success", 0>>, <<"form", 0>>}

\* document.getElementById("contact-form")
form == <<"form", 0>> \notin absent
\* document.querySelector('[data-testid="test-contact-success"]')
successMessage == <<"success", 0>> \notin absent
\* formElements[i].input
input(i) == <<"input", i>> \notin absent
\* formElements[i].errorElement
errorElement(i) == <<"error", i>> \notin absent
\* formElements[i].group:  input ? input.closest(".form-group") : null
group(i) == input(i) /\ <<"group", i>> \notin absent

\* The page as the specification describes it: every field has its input, its
\* error slot and its form-group, and the form and the success message exist.
CompletePage == {}

\* The value attribute of the inputs in the markup, which form.reset() restores.
defaultValue == << >>

-----------------------------------------------------------------------------
(* validateField, script.js 136-173, split into the message it computes,   *)
(* the boolean it returns and the two writes it makes.  v is input.value.  *)

\* Variant of errorMessage: the later checks run on an empty required field too
\* and their message replaces the Required one.
errorMessage_NoStop(i, v) ==
    LET fieldObj == fields[i]
        req == IF fieldObj.required
               THEN validators_required(v, fieldObj.friendlyName)
               ELSE ""
        later == IF fieldObj.type = "email" THEN validators_email(v)
                 ELSE IF fieldObj.minLength # 0 /\ fieldObj.minLength > 1
                      THEN validators_minLength(v, fieldObj.minLength, fieldObj.friendlyName)
                 ELSE ""
    IN  IF later # "" THEN later ELSE req

errorMessage(i, v) ==
    LET fieldObj == fields[i]
        req == IF fieldObj.required
               THEN validators_required(v, fieldObj.friendlyName)
               ELSE ""
    IN  IF req # "" THEN req
        ELSE IF fieldObj.type = "email" THEN validators_email(v)
        ELSE IF fieldObj.minLength # 0 /\ fieldObj.minLength > 1
             THEN validators_minLength(v, fieldObj.minLength, fieldObj.friendlyName)
        ELSE ""

\* line 137: if (!fieldObj.input || !fieldObj.errorElement) return true;
skipped(i) == ~input(i) \/ ~errorElement(i)

\* the value validateField(formElements[i]) returns
validateField(i, v) == skipped(i) \/ errorMessage(i, v) = ""

\* errorElement.textContent of field i after validateField
textAfter(i, v) == IF skipped(i) THEN errText[i] ELSE errorMessage(i, v)

\* Variant of classAfter: the class is added on an error and never removed.
classAfter_NeverRemoved(i, v) ==
    IF skipped(i) \/ ~group(i) THEN errored[i] ELSE errored[i] \/ errorMessage(i, v) # ""

\* the "error" class of the group of field i after validateField
classAfter(i, v) ==
    IF skipped(i) \/ ~group(i) THEN errored[i] ELSE errorMessage(i, v) # ""

\* validateForm, script.js 179-187: forEach over all the fields, no early exit.
validateForm == \A i \in FieldIdx : validateField(i, value[i])

\* Variant of validatedBySubmit: the loop stops at the first invalid field.
validatedBySubmit_ShortCircuit ==
    {i \in FieldIdx : \A j \in FieldIdx : j < i => validateField(j, value[j])}

\* The fields validateForm writes: every one, in declared order.
validatedBySubmit == FieldIdx

\* Variant of firstInvalid: the last errored field instead of the first.
firstInvalid_Last(cls) ==
    LET bad == {i \in FieldIdx : group(i) /\ cls[i]}
    IN  IF bad = {} THEN 0 ELSE SetMax(bad)

\* formElements.find((f) => f.group && f.group.classList.contains("error")),
\* evaluated on the classes cls; 0 when find returns undefined.
firstInvalid(cls) ==
    LET bad == {i \in FieldIdx : group(i) /\ cls[i]}
    IN  IF bad = {} THEN 0 ELSE SetMin(bad)

-----------------------------------------------------------------------------
(* Values the user enters in Spec: for each field an empty value, values   *)
(* each check rejects and a value that passes.                             *)

Values(i) ==
    IF i = NameIdx THEN { << >>, <<" ", "\t">>, <<"A", "l">> }
    ELSE IF i = EmailIdx
         THEN { << >>,
                <<"n", "o", "t", "-", "a", "n", "-", "e", "m", "a", "i", "l">>,
                <<"a", "@", "b", ".", "c", "o">> }
    ELSE IF i = SubjectIdx THEN { << >>, <<"H", "i">> }
    ELSE { << >>,
           <<"t", "o", "o", " ", "s", "h", "o", "r", "t">>,
           <<"t", "e", "n", " ", "c", "h", "a", "r", "s", ".">> }

-----------------------------------------------------------------------------
(* Initial states *)

Loading ==
    /\ pc = "loading"
    /\ initFault = FALSE
    /\ listening = [i \in FieldIdx |-> FALSE]
    /\ submitBound = FALSE
    /\ value = [i \in FieldIdx |-> defaultValue]
    /\ errText = [i \in FieldIdx |-> ""]
    /\ errored = [i \in FieldIdx |-> FALSE]
    /\ hidden = TRUE
    /\ focused = 0
    /\ successEvents = 0
    /\ failureEvents = 0
    /\ lastSubmit = "none"

Init == absent = CompletePage /\ Loading

InitPartial ==
    /\ absent \in {A \in SUBSET Elements : Cardinality(A) <= MaxAbsent}
    /\ Loading

-----------------------------------------------------------------------------
(* The DOMContentLoaded handler, script.js 52-238.  The forEach of line    *)
(* 192 calls input.addEventListener on every field in order: on a field    *)
(* whose input is null that call throws a TypeError, which ends the        *)
(* handler, so the later fields and the form get no listener.  With every  *)
(* input present, form.addEventListener (206) throws when form is null.    *)

noInput == {i \in FieldIdx : ~input(i)}

registered(i) == noInput = {} \/ i < SetMin(noInput)

DOMContentLoaded ==
    /\ pc = "loading"
    /\ pc' = "ready"
    /\ listening' = [i \in FieldIdx |-> registered(i)]
    /\ submitBound' = (noInput = {} /\ form)
    /\ initFault' = (noInput # {} \/ ~form)
    /\ UNCHANGED <<absent, value, errText, errored, hidden, focused,
                   successEvents, failureEvents, lastSubmit>>

-----------------------------------------------------------------------------
(* Listeners *)

\* The blur listener of field i, script.js 193-195.
blurListener(i) ==
    /\ errText' = [errText EXCEPT ![i] = textAfter(i, value[i])]
    /\ errored' = [errored EXCEPT ![i] = classAfter(i, value[i])]

\* Variant of inputListener: validates whether or not the field is errored.
inputListener_Always(i, v) ==
    /\ errText' = [errText EXCEPT ![i] = textAfter(i, v)]
    /\ errored' = [errored EXCEPT ![i] = classAfter(i, v)]

\* The input listener of field i, script.js 198-202; v is the new input.value.
inputListener(i, v) ==
    IF group(i) /\ errored[i]
    THEN /\ errText' = [errText EXCEPT ![i] = textAfter(i, v)]
         /\ errored' = [errored EXCEPT ![i] = classAfter(i, v)]
    ELSE UNCHANGED <<errText, errored>>

\* The user moves the focus out of field i to something that is not a field.
Blur(i) ==
    /\ pc = "ready"
    /\ focused = i
    /\ input(i)
    /\ focused' = 0
    /\ IF listening[i] THEN blurListener(i) ELSE UNCHANGED <<errText, errored>>
    /\ UNCHANGED <<absent, pc, initFault, listening, submitBound, value, hidden,
                   successEvents, failureEvents, lastSubmit>>

\* The user moves the focus into field i; the field that held it gets a blur event.
Focus(i) ==
    /\ pc = "ready"
    /\ input(i)
    /\ focused # i
    /\ focused' = i
    /\ IF focused # 0 /\ listening[focused]
       THEN blurListener(focused)
       ELSE UNCHANGED <<errText, errored>>
    /\ UNCHANGED <<absent, pc, initFault, listening, submitBound, value, hidden,
                   successEvents, failureEvents, lastSubmit>>

\* The content of field i changes to v (typing, paste, autofill): an input event.
Input(i, v) ==
    /\ pc = "ready"
    /\ input(i)
    /\ v # value[i]
    /\ value' = [value EXCEPT ![i] = v]
    /\ IF listening[i] THEN inputListener(i, v) ELSE UNCHANGED <<errText, errored>>
    /\ UNCHANGED <<absent, pc, initFault, listening, submitBound, hidden, focused,
                   successEvents, failureEvents, lastSubmit>>

\* Variant of formReset: the form is not reset.
formReset_Omitted == value

\* form.reset(), script.js 222: every input goes back to its default value.
formReset == [i \in FieldIdx |-> IF input(i) THEN defaultValue ELSE value[i]]

\* Variant of hideSuccess: a new submission does not hide the success message.
hideSuccess_Omitted == hidden

\* successMessage && successMessage.classList.add("hidden"), script.js 210
hideSuccess == IF successMessage THEN TRUE ELSE hidden
\* successMessage && successMessage.classList.remove("hidden"), script.js 219
showSuccess == IF successMessage THEN FALSE ELSE hidden

\* The submit listener, script.js 206-237.  firstInvalid.input.focus() sends a
\* blur event to the field that held the focus; its listener validates a value
\* validateForm has just validated and so writes what is already there.
Submit ==
    /\ pc = "ready"
    /\ submitBound
    /\ successEvents + failureEvents < MaxSignals
    /\ errText' = [i \in FieldIdx |->
                     IF i \in validatedBySubmit THEN textAfter(i, value[i]) ELSE errText[i]]
    /\ errored' = [i \in FieldIdx |->
                     IF i \in validatedBySubmit THEN classAfter(i, value[i]) ELSE errored[i]]
    /\ IF validateForm
       THEN /\ lastSubmit' = "pass"
            /\ hidden' = showSuccess
            /\ value' = formReset
            /\ successEvents' = successEvents + 1
            /\ UNCHANGED <<focused, failureEvents>>
       ELSE /\ lastSubmit' = "fail"
            /\ hidden' = hideSuccess
            /\ focused' = IF firstInvalid(errored') # 0 THEN firstInvalid(errored') ELSE focused
            /\ failureEvents' = failureEvents + 1
            /\ UNCHANGED <<value, successEvents>>
    /\ UNCHANGED <<absent, pc, initFault, listening, submitBound>>

Next ==
    \/ DOMContentLoaded
    \/ \E i \in FieldIdx : Focus(i)
    \/ \E i \in FieldIdx : Blur(i)
    \/ \E i \in FieldIdx : \E v \in Values(i) : Input(i, v)
    \/ Submit

Spec == Init /\ [][Next]_vars

SpecPartial == InitPartial /\ [][Next]_vars

-----------------------------------------------------------------------------
(* SpecField: validateField applied to every string of a bounded set.  The *)
(* page is complete and loaded, the user has typed s into field i, which   *)
(* still holds the focus; leaving the field runs validateField on s.       *)

TextAlphabet == {" ", "a"}
EmailAlphabet == {" ", "a", "@", "."}

StringsUpTo(A, n) == UNION {[1..k -> A] : k \in 0..n}

Strings(i) ==
    IF i = EmailIdx
    THEN StringsUpTo(EmailAlphabet, MaxEmailLen)
    ELSE StringsUpTo(TextAlphabet, MaxTextLen)

InitField ==
    /\ absent = CompletePage
    /\ pc = "ready"
    /\ initFault = FALSE
    /\ listening = [i \in FieldIdx |-> TRUE]
    /\ submitBound = TRUE
    /\ \E i \in FieldIdx : \E s \in Strings(i) :
           /\ value = [j \in FieldIdx |-> IF j = i THEN s ELSE defaultValue]
           /\ focused = i
    /\ errText = [i \in FieldIdx |-> ""]
    /\ errored = [i \in FieldIdx |-> FALSE]
    /\ hidden = TRUE
    /\ successEvents = 0
    /\ failureEvents = 0
    /\ lastSubmit = "none"

NextField == \E i \in FieldIdx : Blur(i)

SpecField == InitField /\ [][NextField]_vars

-----------------------------------------------------------------------------
(* What the specification says of a value, stated without the validators.  *)

\* s without its leading white space.
RECURSIVE DropLeading(_)
DropLeading(s) ==
    IF s # << >> /\ Head(s) \in {" ", "\t"} THEN DropLeading(Tail(s)) ELSE s

\* s without its trailing white space.
RECURSIVE DropTrailing(_)
DropTrailing(s) ==
    IF s # << >> /\ s[Len(s)] \in {" ", "\t"}
    THEN DropTrailing(SubSeq(s, 1, Len(s) - 1))
    ELSE s

\* The trimmed value of the specification's data model.
Trimmed(v) == DropTrailing(DropLeading(v))

\* Empty or white space only.
Blank(v) == \A k \in 1..Len(v) : v[k] \in {" ", "\t"}

\* The local@domain.tld shape: exactly one "@", no white space, something
\* before the "@", and a "." after it with something on both of its sides.
LocalAtDomainTld(s) ==
    LET ats == {k \in 1..Len(s) : s[k] = "@"}
    IN  /\ Cardinality(ats) = 1
        /\ \A k \in 1..Len(s) : s[k] # " " /\ s[k] # "\t"
        /\ \A a \in ats :
              /\ a > 1
              /\ \E d \in (a + 2)..(Len(s) - 1) : s[d] = "."

RequiredText(i) ==
    CASE i = NameIdx -> "Full Name is required."
      [] i = EmailIdx -> "Email is required."
      [] i = SubjectIdx -> "Subject is required."
      [] i = MessageIdx -> "Message is required."

FormatText == "Please enter a valid email address (e.g., name@example.com)."

LengthText == "Message must be at least 10 characters long."

\* The error text section 4.1 of the specification prescribes for value v of field i.
SpecMessage(i, v) ==
    IF Blank(v) THEN RequiredText(i)
    ELSE IF i = EmailIdx
         THEN IF LocalAtDomainTld(Trimmed(v)) THEN "" ELSE FormatText
    ELSE IF i = MessageIdx /\ Len(Trimmed(v)) < 10 THEN LengthText
    ELSE ""

Passes(i, v) == SpecMessage(i, v) = ""

NotAnEmail == <<"n", "o", "t", "-", "a", "n", "-", "e", "m", "a", "i", "l">>

\* A step in which field i receives an input event.
InputStep(i) == \E v \in Values(i) : Input(i, v)

-----------------------------------------------------------------------------
(* Claims *)

\* C1: a submit of a form whose four values all pass validation leaves the
\* success message visible and every value empty, dispatches contact-success
\* exactly once and does not dispatch contact-failure.
C1_ValidSubmitSucceeds ==
    [][ (Submit /\ \A i \in FieldIdx : Passes(i, value[i]))
        => /\ ~hidden'
           /\ \A i \in FieldIdx : value'[i] = << >>
           /\ successEvents' = successEvents + 1
           /\ failureEvents' = failureEvents ]_vars

C1_Witness ==
    /\ lastSubmit = "pass"
    /\ ~hidden
    /\ successEvents = 1
    /\ failureEvents = 0
    /\ \A i \in FieldIdx : value[i] = << >>

\* C2: a submit with some field failing validation moves the focus to the first
\* failing field in declared order and dispatches contact-failure exactly once;
\* with "not-an-email" in the email field and the others valid the focus is on
\* the email field and its error slot holds the email-format message.
C2_FailedSubmitFocusesFirstInvalid ==
    [][ (Submit /\ \E i \in FieldIdx : ~Passes(i, value[i]))
        => /\ focused' \in FieldIdx
           /\ ~Passes(focused', value[focused'])
           /\ \A j \in FieldIdx : j < focused' => Passes(j, value[j])
           /\ failureEvents' = failureEvents + 1
           /\ successEvents' = successEvents
           /\ ( ( /\ value[EmailIdx] = NotAnEmail
                  /\ \A j \in FieldIdx \ {EmailIdx} : Passes(j, value[j]) )
                => /\ focused' = EmailIdx
                   /\ errText'[EmailIdx] = FormatText ) ]_vars

C2_Witness ==
    /\ lastSubmit = "fail"
    /\ failureEvents = 1
    /\ successEvents = 0
    /\ value[EmailIdx] = NotAnEmail
    /\ \A j \in FieldIdx \ {EmailIdx} : Passes(j, value[j])
    /\ focused = EmailIdx
    /\ errText[EmailIdx] = FormatText

\* C3 as stated: validating the email field, every value that does not match
\* the local@domain.tld shape gets the Format error and every value that
\* matches it gets no error.
C3_AsStated ==
    [][ Blur(EmailIdx)
        => /\ ~LocalAtDomainTld(Trimmed(value[EmailIdx]))
                => errText'[EmailIdx] = FormatText
           /\ LocalAtDomainTld(Trimmed(value[EmailIdx]))
                => errText'[EmailIdx] = "" ]_vars

\* C3 amended: validating the email field, every value that is not blank and
\* whose trimmed content does not match the local@domain.tld shape gets the
\* Format error, a blank value gets the Required error, and every value whose
\* trimmed content matches the shape gets no error.
C3_EmailFormat ==
    [][ Blur(EmailIdx)
        => /\ (~Blank(value[EmailIdx]) /\ ~LocalAtDomainTld(Trimmed(value[EmailIdx])))
                => (errText'[EmailIdx] = FormatText /\ errored'[EmailIdx])
           /\ Blank(value[EmailIdx])
                => (errText'[EmailIdx] = "Email is required." /\ errored'[EmailIdx])
           /\ LocalAtDomainTld(Trimmed(value[EmailIdx]))
                => (errText'[EmailIdx] = "" /\ ~errored'[EmailIdx]) ]_vars

\* An address without a top-level part has been validated and rejected.
C3_Witness ==
    /\ focused = 0
    /\ value[EmailIdx] = <<"a", "@", "a">>
    /\ errText[EmailIdx] = FormatText
    /\ errored[EmailIdx]

\* C4 as stated: validating the message field, every value of trimmed length
\* below 10 gets the Length error and every value of trimmed length 10 or more
\* gets no error.
C4_AsStated ==
    [][ Blur(MessageIdx)
        => /\ Len(Trimmed(value[MessageIdx])) < 10
                => errText'[MessageIdx] = LengthText
           /\ Len(Trimmed(value[MessageIdx])) >= 10
                => errText'[MessageIdx] = "" ]_vars

\* C4 amended: validating the message field, every value of trimmed length 1
\* to 9 gets the Length error, a value of trimmed length 0 gets the Required
\* error, and every value of trimmed length 10 or more gets no error.
C4_MessageLength ==
    [][ Blur(MessageIdx)
        => /\ (Len(Trimmed(value[MessageIdx])) \in 1..9)
                => (errText'[MessageIdx] = LengthText /\ errored'[MessageIdx])
           /\ Len(Trimmed(value[MessageIdx])) = 0
                => (errText'[MessageIdx] = "Message is required." /\ errored'[MessageIdx])
           /\ Len(Trimmed(value[MessageIdx])) >= 10
                => (errText'[MessageIdx] = "" /\ ~errored'[MessageIdx]) ]_vars

\* A padded message of exactly ten characters has been validated and accepted.
C4_Witness ==
    /\ focused = 0
    /\ Len(value[MessageIdx]) > 10
    /\ Len(Trimmed(value[MessageIdx])) = 10
    /\ errText[MessageIdx] = ""

\* C5: validating a field whose value is empty or white space only gives exactly
\* "<label> is required." for that field: neither the format nor the length
\* message is reported.
C5_RequiredOnly ==
    [][ \A i \in FieldIdx :
          (Blur(i) /\ Blank(value[i]))
          => /\ errText'[i] = RequiredText(i)
             /\ errored'[i]
             /\ \A j \in FieldIdx \ {i} : errText'[j] = errText[j] ]_vars

\* A white-space-only value has been validated in the email field.
C5_Witness ==
    /\ focused = 0
    /\ value[EmailIdx] # << >>
    /\ Blank(value[EmailIdx])
    /\ errText[EmailIdx] = "Email is required."

\* C6: a field whose input or error element is absent is skipped, never a hard
\* failure: on a page that has its form, initialisation ends without a thrown
\* fault, with the submit listener and the listeners of every present input
\* registered.
C6_MissingBindingTolerated ==
    (pc = "ready" /\ form)
    => /\ ~initFault
       /\ submitBound
       /\ \A i \in FieldIdx : input(i) => listening[i]

\* C7: after a submit every field's error slot and errored flag are those of
\* its value at submission, fields after the first invalid one included, and
\* validateForm returns true iff every field's value is valid.
C7_NoShortCircuit ==
    [][ Submit
        => /\ \A i \in FieldIdx :
                 /\ errText'[i] = SpecMessage(i, value[i])
                 /\ errored'[i] = (SpecMessage(i, value[i]) # "")
           /\ (lastSubmit' = "pass") = (\A i \in FieldIdx : Passes(i, value[i])) ]_vars

\* A failed submit has marked two invalid fields at once.
C7_Witness ==
    /\ lastSubmit = "fail"
    /\ focused = NameIdx
    /\ errText[NameIdx] = "Full Name is required."
    /\ errText[MessageIdx] = LengthText
    /\ errored[MessageIdx]
    /\ errText[EmailIdx] = ""

\* C8: an input event on an errored field re-validates that field alone, so its
\* flag and slot clear as soon as the value is valid; on a field that is not
\* errored it changes no error slot, no flag, not the success message, no
\* counter of dispatched events, even when the new value is invalid.
C8_InputRevalidatesOnlyErrored ==
    [][ \A i \in FieldIdx :
          InputStep(i)
          => /\ \A j \in FieldIdx \ {i} :
                   errText'[j] = errText[j] /\ errored'[j] = errored[j]
             /\ hidden' = hidden
             /\ successEvents' = successEvents
             /\ failureEvents' = failureEvents
             /\ focused' = focused
             /\ IF errored[i]
                THEN /\ errText'[i] = SpecMessage(i, value'[i])
                     /\ errored'[i] = (SpecMessage(i, value'[i]) # "")
                ELSE errText'[i] = errText[i] /\ errored'[i] = errored[i] ]_vars

\* The failed submit left the focus on the errored email field; it was corrected
\* by typing, with no blur, while the message field holds an invalid value that
\* was typed after the submit and is not flagged.
C8_Witness ==
    /\ focused = EmailIdx
    /\ failureEvents = 1
    /\ successEvents = 0
    /\ Passes(EmailIdx, value[EmailIdx])
    /\ ~errored[EmailIdx]
    /\ errText[EmailIdx] = ""
    /\ ~Passes(MessageIdx, value[MessageIdx])
    /\ ~errored[MessageIdx]

\* C9: the success message is visible only if the latest submit passed
\* validation; a failed submit leaves it hidden, and focus, blur and input
\* events never change its visibility.
C9_SuccessOnlyAfterValidSubmit ==
    /\ [](~hidden => lastSubmit = "pass")
    /\ [][ /\ (Submit /\ lastSubmit' = "fail") => hidden'
           /\ (\E i \in FieldIdx : Blur(i) \/ Focus(i) \/ InputStep(i))
                => hidden' = hidden ]_vars

\* A passed submit showed the message and a later failed submit hid it again.
C9_Witness ==
    /\ successEvents = 1
    /\ failureEvents = 1
    /\ lastSubmit = "fail"
    /\ hidden

\* C10: every field that has its input, its error slot and its form-group is
\* flagged as errored iff its error slot is not empty, and the slot holds
\* nothing but the Required, Format or Length text of that field.
C10_FlagMatchesSlot ==
    \A i \in FieldIdx :
        (input(i) /\ errorElement(i) /\ group(i))
        => /\ errored[i] = (errText[i] # "")
           /\ errText[i] \in {"", RequiredText(i)}
                \cup (IF i = EmailIdx THEN {FormatText} ELSE {})
                \cup (IF i = MessageIdx THEN {LengthText} ELSE {})

\* The message field is flagged with the Length text while another field's
\* error element is absent.
C10_Witness ==
    /\ errored[MessageIdx]
    /\ errText[MessageIdx] = LengthText
    /\ ~errored[EmailIdx]
    /\ errText[EmailIdx] = ""
    /\ ~errorElement(NameIdx)

====
